---- MODULE Spec2Model ----
(***************************************************************************)
(* Model of the multiformat exam generator:                                *)
(*   - the client mock API (src/lib/api.ts): JOB_STORE, uploadFiles,        *)
(*     getJobStatus, getQuiz, simulateProcessing;                           *)
(*   - the upload card and its poller (FileUploadCard.tsx);                 *)
(*   - the generate-exam endpoint (app/api/generate-exam/route.ts).         *)
(*                                                                         *)
(* JavaScript runs one task at a time, so every action below is one task   *)
(* together with the microtasks it queues: an `await` on a promise that is *)
(* already settled (getJobStatus) continues inside the same action, an     *)
(* `await delay(ms)` ends the action and its continuation is another one.  *)
(* Timers only promise "not before": a repeating timer that was held up    *)
(* fires its next tick early, so ticks and timeouts interleave freely.     *)
(***************************************************************************)
EXTENDS Integers, Sequences, FiniteSets, TLC

VARIABLES
    JOB_STORE,      \* api.ts: Map jobId -> InternalJob
    sim,            \* api.ts: closure of each simulateProcessing call (step, files)
    resp,           \* what a direct call of an exported api function returned in this step
    apiQuiz,        \* the direct getQuiz call waiting in delay(120), if any
    polled,         \* the JobStatus s that a fetchOnce() of this step received, if any
    mounted,        \* FileUploadCard: the component is mounted
    queued,         \* FileUploadCard: useState<File[]>
    error,          \* FileUploadCard: useState<string | null>
    uploading,      \* FileUploadCard: useState(false)
    quiz,           \* FileUploadCard: useState<Quiz | null>
    pollRef,        \* FileUploadCard: pollRef.current (0 is null)
    intervals,      \* window: active intervals created by pollJob, handle -> jobId
    handles,        \* window: number of interval handles handed to pollJob so far
    pendingUpload,  \* startUpload calls waiting in uploadFiles' delay(200)
    quizPending,    \* fetchOnce calls waiting in getQuiz's delay(120), per job
    quizCalls,      \* history: getQuiz calls made by the poller, per job
    fetched,        \* history: jobs whose result the poller has fetched
    lateStatus,     \* history: jobs polled again after their result was fetched
    completeCalls,  \* history: onJobComplete invocations, per job
    disk,           \* route.ts: the server's file system (jobs/, uploads/, tmp)
    response,       \* route.ts: the response to the latest request
    request,        \* route.ts: the latest request
    thrown,         \* route.ts: the calls that threw while the latest request was handled
    raw,            \* route.ts: the value handed to GenerationSchema.safeParse
    parsed,         \* route.ts: what safeParse returned for raw
    made,           \* route.ts: what makeDemoQuiz returned for parsed.data
    currentQuiz,    \* useAppStore: currentQuiz
    selectedQuestionId, \* useAppStore: selectedQuestionId
    called,         \* useAppStore: the store function called in this step
    artifact        \* editor page / ExportModal: the Blob an export of this step made

apiVars  == <<JOB_STORE, sim, resp, apiQuiz>>
cardVars == <<polled, mounted, queued, error, uploading, quiz, pollRef, intervals,
              handles, pendingUpload, quizPending, quizCalls, fetched,
              lateStatus, completeCalls>>
srvVars  == <<disk, response, request, thrown>>
cfgVars  == <<raw, parsed, made>>
storeVars == <<currentQuiz, selectedQuestionId, called, artifact>>
vars     == <<apiVars, cardVars, srvVars, cfgVars, storeVars>>

Null == "null"                \* null or undefined where a string is expected
NoQuiz == [none |-> TRUE]     \* null where a Quiz is expected
NoStatus == [status |-> "none"] \* null where a JobStatus is expected

(***************************************************************************)
(* Bounds of the model.                                                    *)
(***************************************************************************)
MaxJobs == 1        \* uploadFiles calls
MaxFiles == 1       \* files in one upload
MaxQuizCalls == 2   \* getQuiz calls the poller may make for one job

JobIds == 1..MaxJobs
AnyId == 0..MaxJobs
\* an id uploadFiles never returned
UnknownId == CHOOSE id \in AnyId : id \notin JobIds

(***************************************************************************)
(* Files.  size is in bytes.                                               *)
(***************************************************************************)
Files ==
    { [name |-> "notes.pdf", base |-> "notes", size |-> 5120],
      [name |-> "scan.png",  base |-> "scan",  size |-> 52428801] }

SmallFiles == { f \in Files : f.size <= 50 * 1024 * 1024 }

RECURSIVE SeqsUpTo(_, _)
SeqsUpTo(S, n) ==
    IF n = 0 THEN { <<>> }
    ELSE LET shorter == SeqsUpTo(S, n - 1)
         IN  shorter \cup { Append(s, x) : s \in { t \in shorter : Len(t) = n - 1 }, x \in S }

FileLists == SeqsUpTo(SmallFiles, MaxFiles)

(***************************************************************************)
(* api.ts                                                                  *)
(***************************************************************************)
steps == 12

\* job.progress is a float; it is kept here in units of 1/steps percent, so
\* that 100 / steps is the integer 100.
Percent(p) == p * steps

\* Math.round(job.progress)
MathRound(p) == (2 * p + steps) \div (2 * steps)

\* Math.random() * (100 / steps) lies in [0, 100/steps): its least and its
\* greatest value in these units
RandomGain == { 0, 100 - 1 }

Min(a, b) == IF a <= b THEN a ELSE b

\* buildSampleQuiz(files): two questions per file; quizId, generatedAt and
\* confidence come from Math.random()/Date and are left out of the record.
SampleQuestions(f, idx) ==
    << [id |-> <<"q", idx, 1>>, type |-> "mcq",
        prompt |-> <<"Which statement about", f.base, "is correct?">>,
        choices |-> <<"Option A", "Option B", "Option C", "Option D">>,
        answer |-> "Option A", status |-> "pending"],
       [id |-> <<"q", idx, 2>>, type |-> "tf",
        prompt |-> <<"True or False:", f.base, "is covered in the uploaded file.">>,
        choices |-> Null,
        answer |-> "True", status |-> "pending"] >>

RECURSIVE FlatMapQuestions(_, _)
FlatMapQuestions(files, idx) ==
    IF idx >= Len(files) THEN <<>>
    ELSE SampleQuestions(files[idx + 1], idx) \o FlatMapQuestions(files, idx + 1)

buildSampleQuiz(files) ==
    [ title     |-> <<"Demo quiz", [i \in 1..Len(files) |-> files[i].name]>>,
      subject   |-> "Demo",
      questions |-> FlatMapQuestions(files, 0) ]

\* const job = { jobId, progress: 0, status: "pending", result: null }
NewJob(jobId) ==
    [jobId |-> jobId, progress |-> Percent(0), status |-> "pending",
     timer |-> FALSE, result |-> NoQuiz]

\* simulateProcessing, up to the creation of the interval
StartProcessing(j) ==
    [j EXCEPT !.status = "processing", !.progress = Percent(2), !.timer = TRUE]

\* faulty variant: the increment without Math.min(95, ...)
StepProgressNoCap(p, rnd) == p + rnd + (100 - Percent(3))

\* the interval callback of simulateProcessing, rnd = Math.random() * (100/steps)
StepProgress(p, rnd) == Min(Percent(95), p + rnd + (100 - Percent(3)))

\* faulty variant: the last step stops the timer but leaves the status as it was
FinalizeNotDone(j, files) ==
    [j EXCEPT !.progress = Percent(100), !.result = buildSampleQuiz(files),
              !.timer = FALSE]

\* faulty variant: the last step marks the job done without a result
FinalizeNoResult(j, files) ==
    [j EXCEPT !.progress = Percent(100), !.status = "done", !.timer = FALSE]

Finalize(j, files) ==
    [j EXCEPT !.progress = Percent(100), !.status = "done",
              !.result = buildSampleQuiz(files), !.timer = FALSE]

\* faulty variant: a tick marks a job that is not finished as pending again
IntervalCallbackRequeue(j, step, files, rnd) ==
    LET advanced == [j EXCEPT !.progress = StepProgress(j.progress, rnd),
                              !.status = "pending"]
    IN  IF step >= steps THEN Finalize(advanced, files) ELSE advanced

\* faulty variant: the sample quiz is attached while the job is still processing
IntervalCallbackEarlyResult(j, step, files, rnd) ==
    LET advanced == [j EXCEPT !.progress = StepProgress(j.progress, rnd),
                              !.result = buildSampleQuiz(files)]
    IN  IF step >= steps THEN Finalize(advanced, files) ELSE advanced

IntervalCallback(j, step, files, rnd) ==
    LET advanced == [j EXCEPT !.progress = StepProgress(j.progress, rnd)]
    IN  IF step >= steps THEN Finalize(advanced, files) ELSE advanced

\* faulty variant: an unknown job is reported as pending
getJobStatusPending(store, jobId) ==
    IF jobId \notin DOMAIN store
    THEN [jobId |-> jobId, status |-> "pending", progress |-> 0, message |-> Null]
    ELSE [jobId |-> jobId, status |-> store[jobId].status,
          progress |-> MathRound(store[jobId].progress),
          message |-> IF store[jobId].status = "done" THEN "Finished" ELSE Null]

\* getJobStatus(jobId)
getJobStatus(store, jobId) ==
    IF jobId \notin DOMAIN store
    THEN [jobId |-> jobId, status |-> "failed", progress |-> 0,
          message |-> "Job not found."]
    ELSE [jobId |-> jobId, status |-> store[jobId].status,
          progress |-> MathRound(store[jobId].progress),
          message |-> IF store[jobId].status = "done" THEN "Finished" ELSE Null]

\* getQuiz(jobId), the value returned once delay(120) is over
getQuizResult(store, jobId) == store[jobId].result

\* jobId = `job_${Math.random()...}`: an id no earlier call returned
FreshJobId(store) == Cardinality(DOMAIN store) + 1

\* uploadFiles(files) up to its `await delay(200)`
UploadFiles(files) ==
    /\ Cardinality(DOMAIN JOB_STORE) < MaxJobs
    /\ LET jobId == FreshJobId(JOB_STORE)
       IN  /\ JOB_STORE' = (jobId :> StartProcessing(NewJob(jobId))) @@ JOB_STORE
           /\ sim' = (jobId :> [step |-> 0, files |-> files]) @@ sim

\* one tick of the interval created by simulateProcessing
TimerTick(jobId) ==
    /\ jobId \in DOMAIN JOB_STORE
    /\ JOB_STORE[jobId].timer
    /\ \E rnd \in RandomGain :
          LET step == sim[jobId].step + 1
          IN  /\ sim' = [sim EXCEPT ![jobId].step = step]
              /\ JOB_STORE' = [JOB_STORE EXCEPT
                     ![jobId] = IntervalCallback(@, step, sim[jobId].files, rnd)]

(***************************************************************************)
(* Direct calls of the exported api functions.  resp is what the call of   *)
(* this step returned; a step that is no direct call leaves NoResp.        *)
(***************************************************************************)
NoResp == [call |-> "none", jobId |-> UnknownId, value |-> Null]

ApiUploadFiles ==
    /\ \E files \in FileLists : UploadFiles(files)
    /\ resp' = [call |-> "uploadFiles", jobId |-> FreshJobId(JOB_STORE), value |-> Null]
    /\ UNCHANGED <<apiQuiz, cardVars, srvVars, cfgVars, storeVars>>

JobTimerTick(jobId) ==
    /\ TimerTick(jobId)
    /\ resp' = NoResp
    /\ UNCHANGED <<apiQuiz, cardVars, srvVars, cfgVars, storeVars>>

ApiTimerTick == \E jobId \in JobIds : JobTimerTick(jobId)

ApiGetJobStatus ==
    /\ \E jobId \in AnyId :
          resp' = [call |-> "getJobStatus", jobId |-> jobId,
                   value |-> getJobStatus(JOB_STORE, jobId)]
    /\ UNCHANGED <<JOB_STORE, sim, apiQuiz, cardVars, srvVars, cfgVars, storeVars>>

\* getQuiz up to `await delay(120)`; an unknown job returns null at once
ApiGetQuizCall ==
    /\ apiQuiz = {}
    /\ \E jobId \in AnyId :
          IF jobId \in DOMAIN JOB_STORE
          THEN /\ apiQuiz' = {jobId}
               /\ resp' = NoResp
          ELSE /\ apiQuiz' = {}
               /\ resp' = [call |-> "getQuiz", jobId |-> jobId, value |-> NoQuiz]
    /\ UNCHANGED <<JOB_STORE, sim, cardVars, srvVars, cfgVars, storeVars>>

\* getQuiz after the delay: return job.result ?? null
ApiGetQuizReturn ==
    /\ \E jobId \in apiQuiz :
          /\ apiQuiz' = {}
          /\ resp' = [call |-> "getQuiz", jobId |-> jobId,
                      value |-> getQuizResult(JOB_STORE, jobId)]
    /\ UNCHANGED <<JOB_STORE, sim, cardVars, srvVars, cfgVars, storeVars>>

(***************************************************************************)
(* FileUploadCard.tsx                                                      *)
(***************************************************************************)
maxSizeMB == 50

\* window.clearInterval(handle): a handle that is not active is ignored
ClearInterval(ivs, handle) == [h \in DOMAIN ivs \ {handle} |-> ivs[h]]

\* faulty variant: the interval is left running
ClearPollKeeps(ivs, ref) == ivs

\* if (pollRef.current) { window.clearInterval(pollRef.current); pollRef.current = null; }
ClearPoll(ivs, ref) == IF ref # 0 THEN ClearInterval(ivs, ref) ELSE ivs

\* s.message ?? "Job failed"
FailureText(s) == IF s.message = Null THEN "Job failed" ELSE s.message

\* addFiles(files)
AddFiles ==
    /\ mounted
    /\ \E files \in SeqsUpTo(Files, MaxFiles) \ { <<>> } :
          IF \E i \in 1..Len(files) : files[i].size > maxSizeMB * 1024 * 1024
          THEN /\ error' = "File exceeds the size limit."
               /\ queued' = queued
          ELSE /\ Len(queued) + Len(files) <= MaxFiles
               /\ error' = Null
               /\ queued' = queued \o files
    /\ polled' = NoStatus
    /\ UNCHANGED <<apiVars, srvVars, cfgVars, storeVars, mounted, uploading, quiz, pollRef, intervals,
                   handles, pendingUpload, quizPending, quizCalls, fetched,
                   lateStatus, completeCalls>>

\* removeFile(index)
RemoveFile ==
    /\ mounted
    /\ \E index \in 1..Len(queued) :
          queued' = [i \in 1..(Len(queued) - 1) |->
                        IF i < index THEN queued[i] ELSE queued[i + 1]]
    /\ polled' = NoStatus
    /\ UNCHANGED <<apiVars, srvVars, cfgVars, storeVars, mounted, error, uploading, quiz, pollRef,
                   intervals, handles, pendingUpload, quizPending, quizCalls,
                   fetched, lateStatus, completeCalls>>

\* startUpload up to `await uploadFiles(queued)`; the button that calls it is
\* disabled while uploading or when nothing is queued
StartUpload ==
    /\ mounted
    /\ ~uploading
    /\ Len(queued) # 0
    /\ error' = Null
    /\ uploading' = TRUE
    /\ UploadFiles(queued)
    /\ pendingUpload' = pendingUpload \cup {FreshJobId(JOB_STORE)}
    /\ polled' = NoStatus
    /\ UNCHANGED <<resp, apiQuiz, srvVars, cfgVars, storeVars, mounted, queued, quiz, pollRef,
                   intervals, handles, quizPending, quizCalls, fetched,
                   lateStatus, completeCalls>>

\* fetchOnce() for jobId, from its call to the end or to `await getQuiz`'s
\* delay; ref and ivs are pollRef.current and the active intervals by the time
\* the status has arrived
FetchOnce(jobId, ref, ivs) ==
    LET s == getJobStatus(JOB_STORE, jobId)
    IN  \* setJob(s): the card only renders it
        /\ polled' = s
        /\ lateStatus' = IF jobId \in fetched THEN lateStatus \cup {jobId} ELSE lateStatus
        /\ IF s.status = "done"
           THEN /\ quizCalls[jobId] < MaxQuizCalls
                /\ quizCalls' = [quizCalls EXCEPT ![jobId] = @ + 1]
                /\ quizPending' = [quizPending EXCEPT ![jobId] = @ + 1]
                /\ pollRef' = ref
                /\ intervals' = ivs
                /\ UNCHANGED <<error, uploading>>
           ELSE IF s.status = "failed"
           THEN /\ error' = FailureText(s)
                /\ uploading' = FALSE
                /\ pollRef' = 0
                /\ intervals' = ClearPoll(ivs, ref)
                /\ UNCHANGED <<quizCalls, quizPending>>
           ELSE /\ pollRef' = ref
                /\ intervals' = ivs
                /\ UNCHANGED <<error, uploading, quizCalls, quizPending>>

\* pollJob(jobId): clear the prior interval, fetchOnce(), setInterval(fetchOnce, 800)
PollJob(jobId) ==
    LET handle == handles + 1
    IN  /\ handles' = handle
        /\ FetchOnce(jobId, handle, (handle :> jobId) @@ ClearPoll(intervals, pollRef))

\* startUpload after `await uploadFiles(queued)`: pollJob(jobId)
UploadResolve ==
    /\ \E jobId \in pendingUpload :
          /\ pendingUpload' = pendingUpload \ {jobId}
          /\ PollJob(jobId)
    /\ UNCHANGED <<apiVars, srvVars, cfgVars, storeVars, mounted, queued, quiz, fetched, completeCalls>>

\* a tick of the interval created by pollJob
PollTick ==
    /\ \E handle \in DOMAIN intervals : FetchOnce(intervals[handle], pollRef, intervals)
    /\ UNCHANGED <<apiVars, srvVars, cfgVars, storeVars, mounted, queued, quiz, handles, pendingUpload,
                   fetched, completeCalls>>

\* fetchOnce() after `await getQuiz(jobId)`
QuizResolve ==
    /\ \E jobId \in JobIds :
          /\ quizPending[jobId] > 0
          /\ quizPending' = [quizPending EXCEPT ![jobId] = @ - 1]
          /\ LET q == getQuizResult(JOB_STORE, jobId)
             IN  /\ quiz' = q
                 /\ completeCalls' = IF q # NoQuiz
                                      THEN [completeCalls EXCEPT ![jobId] = @ + 1]
                                      ELSE completeCalls
          /\ fetched' = fetched \cup {jobId}
    /\ uploading' = FALSE
    /\ intervals' = ClearPoll(intervals, pollRef)
    /\ pollRef' = 0
    /\ polled' = NoStatus
    /\ UNCHANGED <<apiVars, srvVars, cfgVars, storeVars, mounted, queued, error, handles,
                   pendingUpload, quizCalls, lateStatus>>

\* the cleanup of the mount effect
Unmount ==
    /\ mounted
    /\ mounted' = FALSE
    /\ intervals' = ClearPoll(intervals, pollRef)
    /\ polled' = NoStatus
    /\ UNCHANGED <<apiVars, srvVars, cfgVars, storeVars, queued, error, uploading, quiz, pollRef,
                   handles, pendingUpload, quizPending, quizCalls, fetched,
                   lateStatus, completeCalls>>

\* the jobs' timers run while the card is on the page
CardTimerTick ==
    /\ \E jobId \in JobIds : TimerTick(jobId)
    /\ polled' = NoStatus
    /\ UNCHANGED <<resp, apiQuiz, srvVars, cfgVars, storeVars, mounted, queued, error, uploading, quiz,
                   pollRef, intervals, handles, pendingUpload, quizPending,
                   quizCalls, fetched, lateStatus, completeCalls>>

\* pollJob driven with an id that uploadFiles never returned, at a moment when
\* no job is being processed
PollUnknown ==
    /\ handles < MaxJobs + 1
    /\ \A jobId \in DOMAIN JOB_STORE : ~JOB_STORE[jobId].timer
    /\ PollJob(UnknownId)
    /\ UNCHANGED <<apiVars, srvVars, cfgVars, storeVars, mounted, queued, quiz, pendingUpload, fetched,
                   completeCalls>>

(***************************************************************************)
(* app/api/generate-exam/route.ts                                          *)
(*                                                                         *)
(* JSON values are tagged records.  A key that is missing and a key whose  *)
(* value is undefined are the same value Absent: JSON.stringify and        *)
(* NextResponse.json drop both.  Timestamps are left out.                  *)
(***************************************************************************)
MaxRequests == 2    \* requests the endpoint handles

Absent == [type |-> "undefined"]
JNull == [type |-> "null"]
NaN == [type |-> "NaN"]
Str(s) == [type |-> "string", v |-> s]
\* a number, kept as twice its value so that halves are representable
Num(n) == [type |-> "number", twice |-> 2 * n]
Half(n) == [type |-> "number", twice |-> n]
Arr(seq) == [type |-> "array", items |-> seq]

IsStr(v) == v.type = "string"
IsNonEmptyStr(v) == IsStr(v) /\ v.v # ""
IsOneOf(v, names) == IsStr(v) /\ v.v \in names
IsOptional(v, ok) == v = Absent \/ ok

QuestionTypes == {"mixed", "mcq", "tf", "fib", "theory"}
Complexities == {"MiddleSchool", "HighSchool", "Undergrad", "Corporate"}
SourceModes == {"paste", "upload"}
SchemaKeys == {"title", "subject", "questionCount", "questionType", "complexity",
               "aoc", "language", "sourceMode", "pastedText"}

questionCountMin == 1
questionCountMax == 100

\* z.number().int().min(1).max(100)
IsQuestionCount(v) ==
    /\ v.type = "number"
    /\ v.twice % 2 = 0
    /\ v.twice \div 2 >= questionCountMin
    /\ v.twice \div 2 <= questionCountMax

\* z.array(z.string())
IsStringArray(v) ==
    /\ v.type = "array"
    /\ \A i \in 1..Len(v.items) : IsStr(v.items[i])

\* GenerationSchema, one field
FieldOk(key, v) ==
    CASE key = "title"         -> IsNonEmptyStr(v)
      [] key = "subject"       -> IsNonEmptyStr(v)
      [] key = "questionCount" -> IsQuestionCount(v)
      [] key = "questionType"  -> IsOneOf(v, QuestionTypes)
      [] key = "complexity"    -> IsOneOf(v, Complexities)
      [] key = "aoc"           -> IsOptional(v, IsStringArray(v))
      [] key = "language"      -> IsOptional(v, IsStr(v))
      [] key = "sourceMode"    -> IsOptional(v, IsOneOf(v, SourceModes))
      [] key = "pastedText"    -> IsOptional(v, IsStr(v))

\* faulty variant: validation stops at the first failing field
SafeParseErrorsFirstOnly(body) ==
    IF body.type # "object" THEN {"_root"}
    ELSE LET failing == { key \in SchemaKeys : ~FieldOk(key, body.fields[key]) }
         IN  IF failing = {} THEN {}
             ELSE IF "title" \in failing THEN {"title"}
             ELSE {CHOOSE key \in failing : TRUE}

\* GenerationSchema.safeParse(body): the failing paths of parsed.error.format();
\* "_root" is the failure of a body that is no object
SafeParseErrors(body) ==
    IF body.type # "object" THEN {"_root"}
    ELSE { key \in SchemaKeys : ~FieldOk(key, body.fields[key]) }

\* parsed.data: the schema's keys of the body, optional keys stay as they came
SafeParseData(body) == body.fields

\* faulty variant: a mixed quiz starts with tf
DemoQuestionTfFirst(cfg, i) ==
    LET type == IF cfg.questionType.v = "mixed"
                THEN (IF i % 2 = 0 THEN "tf" ELSE "mcq")
                ELSE cfg.questionType.v
    IN  [ id          |-> <<"demo_q", i + 1>>,
          type        |-> type,
          prompt      |-> <<"Demo question", i + 1, "about", cfg.subject.v>>,
          choices     |-> IF type = "mcq" THEN Arr(<<"A", "B", "C", "D">>) ELSE Absent,
          answer      |-> IF type = "mcq" THEN "A" ELSE "True",
          explanation |-> "Demo explanation." ]

\* faulty variant: every question gets the four choices
DemoQuestionAllChoices(cfg, i) ==
    LET type == IF cfg.questionType.v = "mixed"
                THEN (IF i % 2 = 0 THEN "mcq" ELSE "tf")
                ELSE cfg.questionType.v
    IN  [ id          |-> <<"demo_q", i + 1>>,
          type        |-> type,
          prompt      |-> <<"Demo question", i + 1, "about", cfg.subject.v>>,
          choices     |-> Arr(<<"A", "B", "C", "D">>),
          answer      |-> IF type = "mcq" THEN "A" ELSE "True",
          explanation |-> "Demo explanation." ]

\* makeDemoQuiz(cfg)
DemoQuestion(cfg, i) ==
    LET type == IF cfg.questionType.v = "mixed"
                THEN (IF i % 2 = 0 THEN "mcq" ELSE "tf")
                ELSE cfg.questionType.v
    IN  [ id          |-> <<"demo_q", i + 1>>,
          type        |-> type,
          prompt      |-> <<"Demo question", i + 1, "about", cfg.subject.v>>,
          choices     |-> IF type = "mcq" THEN Arr(<<"A", "B", "C", "D">>) ELSE Absent,
          answer      |-> IF type = "mcq" THEN "A" ELSE "True",
          explanation |-> "Demo explanation." ]

\* faulty variant: the index itself is the id number
makeDemoQuizFromZero(cfg) ==
    LET n == cfg.questionCount.twice \div 2
    IN  [ title     |-> cfg.title.v,
          subject   |-> cfg.subject.v,
          questions |-> [k \in 1..n |->
                           [DemoQuestion(cfg, k - 1) EXCEPT !.id = <<"demo_q", k - 1>>]] ]

makeDemoQuiz(cfg) ==
    LET n == cfg.questionCount.twice \div 2
    IN  [ title     |-> cfg.title.v,
          subject   |-> cfg.subject.v,
          questions |-> [k \in 1..n |-> DemoQuestion(cfg, k - 1)] ]

\* The requests the model sends.
BaseFields ==
    [ title |-> Str("T"), subject |-> Str("Biology"), questionCount |-> Num(4),
      questionType |-> Str("mcq"), complexity |-> Str("HighSchool"),
      aoc |-> Absent, language |-> Absent, sourceMode |-> Absent,
      pastedText |-> Absent ]

Obj(fields) == [type |-> "object", fields |-> fields]

ValidBodies ==
    { Obj(BaseFields),
      Obj([BaseFields EXCEPT !.questionType = Str("mixed")]),
      Obj([BaseFields EXCEPT !.questionCount = Num(1), !.questionType = Str("tf"),
                             !.aoc = Arr(<<Str("cells")>>)]) }

InvalidBodies ==
    { Obj([BaseFields EXCEPT !.questionCount = Num(0)]),
      Obj([BaseFields EXCEPT !.questionCount = Num(101)]),
      Obj([BaseFields EXCEPT !.questionCount = Half(5)]),
      Obj([BaseFields EXCEPT !.questionCount = Str("4")]),
      Obj([BaseFields EXCEPT !.questionCount = NaN]),
      Obj([BaseFields EXCEPT !.title = Str(""), !.questionCount = Absent]),
      Obj([BaseFields EXCEPT !.questionType = Str("essay")]),
      Obj([BaseFields EXCEPT !.aoc = Str("cells")]),
      Arr(<<Str("T")>>) }

Malformed == [type |-> "malformed"]

\* what JSON.parse / req.json() may be given: text that does not parse, null, a value
JsonTexts == {Malformed, JNull} \cup ValidBodies \cup InvalidBodies

\* Number(text) of a form field
NumberOf(text) ==
    CASE text = "4"   -> Num(4)
      [] text = "2.5" -> Half(5)
      [] OTHER        -> NaN

\* JSON.parse(text) of the aoc form field, else the comma-separated reading
AocOf(text) ==
    CASE text = "[\"cells\"]" -> Arr(<<Str("cells")>>)
      [] text = "7"           -> Num(7)
      [] text = "cells, dna"  -> Arr(<<Str("cells"), Str("dna")>>)
      [] OTHER                -> Arr(<< >>)

\* The values the validator is given on its own: every valid questionCount with
\* every questionType, and objects in which several fields fail at once.
CountValues ==
    { Num(0 - 1), Num(0), Num(questionCountMin), Num(questionCountMax),
      Num(questionCountMax + 1), Half(5), Str("4"), NaN, JNull, Absent }

RawConfigs ==
    { Obj([BaseFields EXCEPT !.questionCount = Num(n), !.questionType = Str(t)]) :
          n \in questionCountMin..questionCountMax, t \in QuestionTypes }
      \cup { Obj([BaseFields EXCEPT !.title = t, !.questionCount = c,
                                   !.questionType = Str(qt), !.aoc = a]) :
                t \in {Str("T"), Str(""), Absent}, c \in CountValues,
                qt \in {"mixed", "essay"},
                a \in {Absent, Arr(<<Str("cells")>>), Str("cells"), Arr(<<Num(1)>>)} }
      \cup ValidBodies \cup InvalidBodies

\* the form without a payload field: every field is a string
DiscreteForms ==
    { [BaseFields EXCEPT !.questionCount = Str(n), !.aoc = a] :
          n \in {"4", "abc"}, a \in {Absent, Str("cells, dna"), Str("7")} }

\* payloadObj of the multipart branch when fields.payload is missing
CoerceForm(form) ==
    Obj([form EXCEPT
            !.questionCount = IF IsStr(@) THEN NumberOf(@.v) ELSE @,
            !.aoc = IF IsStr(@) THEN AocOf(@.v) ELSE @])

\* fields of a multipart request: a payload string, a payload that is no
\* string (passed on unparsed), or discrete fields
MultipartFields ==
    { [payload |-> "string", text |-> t] : t \in JsonTexts }
      \cup { [payload |-> "other", value |-> Arr(<<Str("{}")>>)] }
      \cup { [payload |-> "none", form |-> f] : f \in DiscreteForms }

UploadNames == <<"a1b2.pdf", "c3d4.png">>
UploadLists == { SubSeq(UploadNames, 1, n) : n \in 0..MaxFiles }

\* the calls of fs that may throw, and "none"
JsonFailures == {"none", "mkdir jobs", "writeFile"}
MultipartFailures == {"none", "parse", "mkdir uploads", "persist", "mkdir jobs", "writeFile"}
\* persistUploadedFile: fs.rename works, or the copy fallback runs and its
\* fs.unlink works or fails (swallowed)
MoveKinds == {"rename", "copy", "copy, unlink failed"}

Json(status, body) == [status |-> status, body |-> body]

\* faulty variant: the exception leaves POST and no response is made
InternalErrorUncaught(err) == Json(0, [none |-> TRUE])

\* the catch of POST: details is String(err), here the call that threw
InternalError(err) == Json(500, [error |-> "Internal server error", details |-> err])

\* the calls whose exception reaches the catch of POST
Escaping == {"parse", "mkdir uploads", "persist", "mkdir jobs", "writeFile"}

\* faulty variant: the record is written without the result
DemoJobMetaNoResult(jobId, payload, result) ==
    [jobId |-> jobId, status |-> "done", type |-> "demo", payload |-> payload,
     result |-> Absent]

\* jobMeta of the JSON branch
DemoJobMeta(jobId, payload, result) ==
    [jobId |-> jobId, status |-> "done", type |-> "demo", payload |-> payload,
     result |-> result]

\* faulty variant: the record lists no files
QueuedJobMetaNoFiles(jobId, payload, files) ==
    [jobId |-> jobId, status |-> "queued", payload |-> payload, files |-> << >>]

\* jobMeta of the multipart branch
QueuedJobMeta(jobId, payload, files) ==
    [jobId |-> jobId, status |-> "queued", payload |-> payload, files |-> files]

\* POST, content-type application/json
PostJson ==
    /\ request.n < MaxRequests
    /\ \E text \in JsonTexts, fail \in JsonFailures :
        LET n     == request.n + 1
            jobId == n
            body  == IF text = Malformed THEN JNull ELSE text
            errs  == SafeParseErrors(body)
            demo  == makeDemoQuiz(SafeParseData(body))
            jobMeta == DemoJobMeta(jobId, SafeParseData(body), demo)
        IN  /\ (body = JNull \/ errs # {}) => fail = "none"
            /\ request' = [n |-> n, contentType |-> "application/json", body |-> text,
                           files |-> << >>]
            /\ thrown' = (IF text = Malformed THEN {"req.json"} ELSE {})
                             \cup (IF fail = "none" THEN {} ELSE {fail})
            /\ IF body = JNull
               THEN /\ response' = Json(400, [error |-> "Invalid JSON body"])
                    /\ disk' = disk
               ELSE IF errs # {}
               THEN /\ response' = Json(400, [error |-> "Invalid payload", details |-> errs])
                    /\ disk' = disk
               ELSE IF fail = "mkdir jobs"
               THEN /\ response' = InternalError(fail)
                    /\ disk' = disk
               ELSE IF fail = "writeFile"
               THEN /\ response' = InternalError(fail)
                    /\ disk' = [disk EXCEPT !.jobsDir = TRUE]
               ELSE /\ response' = Json(200, [jobId |-> jobId, status |-> "done", quiz |-> demo])
                    /\ disk' = [disk EXCEPT !.jobsDir = TRUE,
                                            !.jobs = (jobId :> jobMeta) @@ @]
    /\ UNCHANGED <<apiVars, cardVars, cfgVars, storeVars>>

\* uploads/<jobId>/<name>, the value persistUploadedFile returns
DestPath(jobId, name) == <<"uploads", jobId, name>>

\* the temporary file formidable writes for an upload of request n
TmpPath(n, name) == <<"tmp", n, name>>

\* the temporary files left behind once persistUploadedFile has run on them
LeftInTmp(move, paths) == IF move = "copy, unlink failed" THEN paths ELSE {}

\* payloadObj of the multipart branch; Malformed when JSON.parse throws
PayloadObj(fields) ==
    CASE fields.payload = "string" -> fields.text
      [] fields.payload = "other"  -> fields.value
      [] fields.payload = "none"   -> CoerceForm(fields.form)

\* the exceptions the multipart branch catches while it builds payloadObj
CaughtInPayload(fields) ==
    CASE fields.payload = "string" /\ fields.text = Malformed -> {"JSON.parse"}
      [] fields.payload = "none" /\ fields.form.aoc = Str("cells, dna") -> {"JSON.parse aoc"}
      [] OTHER -> {}

\* the exceptions persistUploadedFile catches
CaughtInMove(move) ==
    CASE move = "rename" -> {}
      [] move = "copy" -> {"rename"}
      [] move = "copy, unlink failed" -> {"rename", "unlink"}

\* POST, content-type multipart/form-data.  done is the number of files
\* persisted before fs throws in persistUploadedFile.
PostMultipart ==
    /\ request.n < MaxRequests
    /\ \E fields \in MultipartFields, files \in UploadLists,
          fail \in MultipartFailures, move \in MoveKinds, done \in 0..MaxFiles :
        LET n       == request.n + 1
            jobId   == n
            payload == PayloadObj(fields)
            errs    == SafeParseErrors(payload)
            tmp     == { TmpPath(n, files[i]) : i \in 1..Len(files) }
            received  == [disk EXCEPT !.tmp = @ \cup tmp]
            saved(k) == [i \in 1..k |-> DestPath(jobId, files[i])]
            moved(k) == [received EXCEPT
                           !.uploads = (jobId :> saved(k)) @@ @,
                           !.tmp = (@ \ { TmpPath(n, files[i]) : i \in 1..k })
                                   \cup LeftInTmp(move, { TmpPath(n, files[i]) : i \in 1..k })]
            jobMeta == QueuedJobMeta(jobId, SafeParseData(payload), saved(Len(files)))
            internal == InternalError(fail)
            persisted == IF fail = "persist" THEN done ELSE Len(files)
            reached  == fail \notin {"parse", "mkdir uploads"} /\ payload # Malformed
                          /\ errs = {}
        IN  \* choices the run does not reach are fixed, so each run is taken once
            /\ IF fail = "persist" THEN done < Len(files) ELSE done = 0
            /\ (Len(files) = 0 \/ fail \in {"parse", "mkdir uploads"}) => move = "rename"
            /\ (payload = Malformed \/ errs # {}) => fail \in {"none", "parse"} /\ move = "rename"
            /\ request' = [n |-> n, contentType |-> "multipart/form-data",
                           body |-> fields, files |-> files]
            /\ thrown' = (IF fail = "none" THEN {} ELSE {fail})
                            \cup (IF fail # "parse" THEN CaughtInPayload(fields) ELSE {})
                            \cup (IF reached /\ persisted > 0 THEN CaughtInMove(move) ELSE {})
            /\ IF fail = "parse"
               THEN /\ response' = internal
                    /\ disk' = disk
               ELSE IF payload = Malformed
               THEN /\ response' = Json(400, [error |-> "Invalid payload JSON in multipart form"])
                    /\ disk' = received
               ELSE IF errs # {}
               THEN /\ response' = Json(400, [error |-> "Invalid payload", details |-> errs])
                    /\ disk' = received
               ELSE IF fail = "mkdir uploads"
               THEN /\ response' = internal
                    /\ disk' = received
               ELSE IF fail = "persist"
               THEN /\ response' = internal
                    /\ disk' = moved(done)
               ELSE IF fail = "mkdir jobs"
               THEN /\ response' = internal
                    /\ disk' = moved(Len(files))
               ELSE IF fail = "writeFile"
               THEN /\ response' = internal
                    /\ disk' = [moved(Len(files)) EXCEPT !.jobsDir = TRUE]
               ELSE /\ response' = Json(200, [jobId |-> jobId, status |-> "queued",
                                              message |-> "Files saved and job queued"])
                    /\ disk' = [moved(Len(files)) EXCEPT !.jobsDir = TRUE,
                                   !.jobs = (jobId :> jobMeta) @@ @]
    /\ UNCHANGED <<apiVars, cardVars, cfgVars, storeVars>>

\* POST, any other content-type
PostOther ==
    /\ request.n < MaxRequests
    /\ \E text \in {Malformed} \cup ValidBodies :
          request' = [n |-> request.n + 1, contentType |-> "text/plain", body |-> text,
                      files |-> << >>]
    /\ response' = Json(415, [error |-> "Unsupported Content-Type. Use application/json or multipart/form-data"])
    /\ disk' = disk
    /\ thrown' = {}
    /\ UNCHANGED <<apiVars, cardVars, cfgVars, storeVars>>

\* no safeParse call yet
NotParsed == [done |-> FALSE, success |-> FALSE, data |-> Absent, error |-> {}]

\* GenerationSchema.safeParse(body)
SafeParse(body) ==
    IF SafeParseErrors(body) = {}
    THEN [done |-> TRUE, success |-> TRUE, data |-> SafeParseData(body), error |-> {}]
    ELSE [done |-> TRUE, success |-> FALSE, data |-> Absent,
          error |-> SafeParseErrors(body)]

\* const parsed = GenerationSchema.safeParse(body)
ValidateConfig ==
    /\ \E body \in RawConfigs :
          /\ raw' = body
          /\ parsed' = SafeParse(body)
    /\ made' = NoQuiz
    /\ UNCHANGED <<apiVars, cardVars, srvVars, storeVars>>

\* const quiz = makeDemoQuiz(parsed.data), reached when parsed.success
GenerateDemo ==
    /\ parsed.done
    /\ parsed.success
    /\ made = NoQuiz
    /\ made' = makeDemoQuiz(parsed.data)
    /\ UNCHANGED <<apiVars, cardVars, srvVars, storeVars, raw, parsed>>

(***************************************************************************)
(* stores/useAppStore.ts                                                   *)
(***************************************************************************)
NoSelection == << >>          \* selectedQuestionId: null
NoCall == [fn |-> "none"]

NoArtifact == [type |-> "none"]

\* the quizzes handed to setQuiz: what getQuiz returns, and null
StoreQuizzes == { buildSampleQuiz(files) : files \in FileLists } \cup {NoQuiz}

\* the ids of the questions of a quiz
QuestionIds(q) ==
    IF q = NoQuiz THEN {} ELSE { q.questions[k].id : k \in 1..Len(q.questions) }

\* an id that no generated question carries
MissingId == <<"q", 0, 0>>

\* the ids the store's functions are called with
CallIds == UNION { QuestionIds(q) : q \in StoreQuizzes } \cup {MissingId}

\* the patches of the editor page: an edited prompt, a regenerated question
Patches ==
    { [prompt |-> <<"edited">>],
      [prompt |-> <<"edited">>, status |-> "regenerated"] }

\* { ...question, ...patch }
Merge(question, patch) ==
    [key \in DOMAIN question \cup DOMAIN patch |->
        IF key \in DOMAIN patch THEN patch[key] ELSE question[key]]

\* faulty variant: the selection is kept when a quiz is set
setQuizKeepsSelection(state, q) ==
    [currentQuiz |-> q, selectedQuestionId |-> state.selectedQuestionId]

\* setQuiz(quiz), as a function of the store's state
setQuiz(state, q) ==
    [currentQuiz |-> q,
     selectedQuestionId |-> IF q # NoQuiz /\ Len(q.questions) > 0
                            THEN q.questions[1].id
                            ELSE NoSelection]

\* clearQuiz()
clearQuiz(state) == [currentQuiz |-> NoQuiz, selectedQuestionId |-> NoSelection]

\* faulty variant: the patch is merged into every question
updateQuestionEvery(state, id, patch) ==
    IF state.currentQuiz = NoQuiz THEN state
    ELSE [state EXCEPT !.currentQuiz.questions =
             [k \in 1..Len(@) |-> Merge(@[k], patch)]]

\* faulty variant: the patched list is built back to front
updateQuestionReversed(state, id, patch) ==
    IF state.currentQuiz = NoQuiz THEN state
    ELSE [state EXCEPT !.currentQuiz.questions =
             [k \in 1..Len(@) |->
                 IF @[Len(@) + 1 - k].id = id THEN Merge(@[Len(@) + 1 - k], patch)
                 ELSE @[Len(@) + 1 - k]]]

\* updateQuestion(id, patch)
updateQuestion(state, id, patch) ==
    IF state.currentQuiz = NoQuiz THEN state
    ELSE [state EXCEPT !.currentQuiz.questions =
             [k \in 1..Len(@) |-> IF @[k].id = id THEN Merge(@[k], patch) ELSE @[k]]]

\* setSelectedQuestion(id)
setSelectedQuestion(state, id) == [state EXCEPT !.selectedQuestionId = id]

\* faulty variant: accepting a question also selects it
acceptQuestionSelects(state, id) ==
    [updateQuestion(state, id, [status |-> "accepted"]) EXCEPT !.selectedQuestionId = id]

\* acceptQuestion(id)
acceptQuestion(state, id) == updateQuestion(state, id, [status |-> "accepted"])

\* rejectQuestion(id)
rejectQuestion(state, id) == updateQuestion(state, id, [status |-> "rejected"])

\* faulty variant: only the first question gets the status
SetAllStatusFirstOnly(state, status) ==
    IF state.currentQuiz = NoQuiz THEN state
    ELSE [state EXCEPT !.currentQuiz.questions =
             [k \in 1..Len(@) |-> IF k = 1 THEN Merge(@[k], [status |-> status])
                                            ELSE @[k]]]

\* acceptAll() and rejectAll(): every question gets the status
SetAllStatus(state, status) ==
    IF state.currentQuiz = NoQuiz THEN state
    ELSE [state EXCEPT !.currentQuiz.questions =
             [k \in 1..Len(@) |-> Merge(@[k], [status |-> status])]]

\* faulty variant: an accepted question goes back to pending
acceptAllToggle(state) ==
    IF state.currentQuiz = NoQuiz THEN state
    ELSE [state EXCEPT !.currentQuiz.questions =
             [k \in 1..Len(@) |->
                 Merge(@[k], [status |-> IF @[k].status = "accepted"
                                         THEN "pending" ELSE "accepted"])]]

acceptAll(state) == SetAllStatus(state, "accepted")

rejectAll(state) == SetAllStatus(state, "rejected")

\* get(): the state of the store
StoreState == [currentQuiz |-> currentQuiz, selectedQuestionId |-> selectedQuestionId]

\* set(...): the state the call leaves, and the call that was made
StoreSet(next, call) ==
    /\ currentQuiz' = next.currentQuiz
    /\ selectedQuestionId' = next.selectedQuestionId
    /\ called' = call
    /\ artifact' = NoArtifact
    /\ UNCHANGED <<apiVars, cardVars, srvVars, cfgVars>>

SetQuiz ==
    \E q \in StoreQuizzes :
        StoreSet(setQuiz(StoreState, q), [fn |-> "setQuiz", quiz |-> q])

ClearQuiz ==
    StoreSet(clearQuiz(StoreState), [fn |-> "clearQuiz"])

UpdateQuestion ==
    \E id \in CallIds, patch \in Patches :
        StoreSet(updateQuestion(StoreState, id, patch),
                 [fn |-> "updateQuestion", id |-> id, patch |-> patch])

SetSelectedQuestion ==
    \E id \in QuestionIds(currentQuiz) \cup {NoSelection} :
        StoreSet(setSelectedQuestion(StoreState, id),
                 [fn |-> "setSelectedQuestion", id |-> id])

AcceptQuestion ==
    \E id \in CallIds :
        StoreSet(acceptQuestion(StoreState, id), [fn |-> "acceptQuestion", id |-> id])

RejectQuestion ==
    \E id \in CallIds :
        StoreSet(rejectQuestion(StoreState, id), [fn |-> "rejectQuestion", id |-> id])

AcceptAll ==
    StoreSet(acceptAll(StoreState), [fn |-> "acceptAll"])

(***************************************************************************)
(* Export: exportCurrentQuizJSON of the store, handleExportGenerate of the *)
(* editor page and doDownload of ExportModal.  JSON text is kept as the    *)
(* value it denotes: JSON.stringify leaves out the keys whose value is     *)
(* undefined.  A text file is kept as its lines, a line as the indentation *)
(* it starts with, a number or letter index, the label that follows, and   *)
(* the rest.                                                               *)
(***************************************************************************)
Formats == {"json", "txt", "pdf"}

\* q[key], undefined when q has no such key
Field(q, key) == IF key \in DOMAIN q THEN q[key] ELSE Null

\* q[key] !== undefined
HasValue(q, key) == key \in DOMAIN q /\ q[key] # Null

\* what JSON.stringify keeps of an object
DropUndefined(object) ==
    [key \in { k \in DOMAIN object : object[k] # Null } |-> object[key]]

\* JSON.stringify(quiz, null, 2)
JsonStringify(q) ==
    [text |-> "json",
     value |-> [title |-> q.title, subject |-> q.subject,
                questions |-> [k \in 1..Len(q.questions) |->
                                 DropUndefined(q.questions[k])]]]

\* JSON.parse(json)
JsonParse(json) == json.value

NoJson == [text |-> "null"]

\* exportCurrentQuizJSON()
exportCurrentQuizJSON(state) ==
    IF state.currentQuiz = NoQuiz THEN NoJson ELSE JsonStringify(state.currentQuiz)

RECURSIVE Flatten(_)
Flatten(seqs) == IF seqs = << >> THEN << >> ELSE Head(seqs) \o Flatten(Tail(seqs))

Line(indent, n, label, rest) == [indent |-> indent, n |-> n, label |-> label, rest |-> rest]

\* `${title}\nSubject: ${subject}`
HeaderLines(q) == << Line("", 0, "", q.title), Line("", 0, "Subject: ", q.subject) >>

\* `${i + 1}. ${prompt}`
PromptLine(i, qq) == Line("", i + 1, ". ", qq.prompt)

\* `   ${String.fromCharCode(65 + idx)}. ${c}` for every choice
ChoiceLines(qq) ==
    IF HasValue(qq, "choices")
    THEN [idx \in 1..Len(qq.choices) |-> Line("   ", idx, ". ", qq.choices[idx])]
    ELSE << >>

\* `   Answer: ${answer}`
AnswerLine(text) == Line("   ", 0, "Answer: ", text)

BlankLine == Line("", 0, "", "")

\* the lines handleExportGenerate writes for one question
EditorQuestionLines(qq, i) ==
    <<PromptLine(i, qq)>> \o ChoiceLines(qq)
      \o (IF HasValue(qq, "answer") THEN <<AnswerLine(qq.answer)>> ELSE << >>)
      \o <<BlankLine>>

\* the lines doDownload writes for one question
ModalQuestionLines(qq, i, includeAnswers) ==
    <<PromptLine(i, qq)>> \o ChoiceLines(qq)
      \o (IF includeAnswers
          THEN <<AnswerLine(IF HasValue(qq, "answer") THEN qq.answer ELSE "-")>>
          ELSE << >>)
      \o <<BlankLine>>

\* the blocks of the mocked PDF of doDownload: prompt, choices, answer or ""
ModalPdfLines(qq, i, includeAnswers) ==
    <<PromptLine(i, qq)>>
      \o (IF HasValue(qq, "choices")
          THEN [idx \in 1..Len(qq.choices) |-> Line("", 0, "", qq.choices[idx])]
          ELSE <<BlankLine>>)
      \o (IF includeAnswers
          THEN <<Line("", 0, "Answer: ", IF HasValue(qq, "answer") THEN qq.answer ELSE "-")>>
          ELSE <<BlankLine>>)

Blob(type, content) == [type |-> type, content |-> content]

\* faulty variant: the answers are deleted from the store's quiz as well
handleExportGenerateStrips(state, format) ==
    [state |-> [state EXCEPT !.currentQuiz.questions =
                   [k \in 1..Len(@) |-> Merge(@[k], [answer |-> Null])]],
     artifact |-> Blob("application/json", exportCurrentQuizJSON(state))]

\* handleExportGenerate(format) of the editor page: the state it leaves and
\* the Blob it hands to the browser
handleExportGenerate(state, format) ==
    LET json == exportCurrentQuizJSON(state)
        parsed_ == JsonParse(json)
    IN  [state |-> state,
         artifact |->
            IF json = NoJson \/ state.currentQuiz = NoQuiz THEN NoArtifact
            ELSE IF format = "json" THEN Blob("application/json", json)
            ELSE IF format = "txt"
            THEN Blob("text/plain",
                      HeaderLines(parsed_)
                        \o Flatten([k \in 1..Len(parsed_.questions) |->
                                       EditorQuestionLines(parsed_.questions[k], k - 1)]))
            ELSE Blob("application/pdf", json)]

\* { ...quiz, questions: quiz.questions.map((q) => ({ ...q, answer: undefined })) }
WithoutAnswers(q) ==
    [q EXCEPT !.questions = [k \in 1..Len(@) |-> Merge(@[k], [answer |-> Null])]]

\* doDownload(fmt) of ExportModal when no onGenerate is given
doDownload(state, fmt, includeAnswers) ==
    LET q == state.currentQuiz
    IN  [state |-> state,
         artifact |->
            IF q = NoQuiz THEN NoArtifact
            ELSE IF fmt = "json"
            THEN Blob("application/json",
                      JsonStringify(IF includeAnswers THEN q ELSE WithoutAnswers(q)))
            ELSE IF fmt = "txt"
            THEN Blob("text/plain",
                      HeaderLines(q)
                        \o Flatten([k \in 1..Len(q.questions) |->
                                       ModalQuestionLines(q.questions[k], k - 1,
                                                          includeAnswers)]))
            ELSE Blob("application/pdf",
                      <<Line("", 0, "", q.title), BlankLine>>
                        \o Flatten([k \in 1..Len(q.questions) |->
                                       ModalPdfLines(q.questions[k], k - 1,
                                                     includeAnswers)]))]

\* the state and the Blob an export leaves, and the call that was made
ExportSet(result, call) ==
    /\ currentQuiz' = result.state.currentQuiz
    /\ selectedQuestionId' = result.state.selectedQuestionId
    /\ artifact' = result.artifact
    /\ called' = call
    /\ UNCHANGED <<apiVars, cardVars, srvVars, cfgVars>>

\* "Generate & Download" on the editor page: doDownload hands the format, and
\* only the format, to handleExportGenerate
EditorExport ==
    /\ currentQuiz # NoQuiz
    /\ \E format \in Formats, includeAnswers \in BOOLEAN :
          ExportSet(handleExportGenerate(StoreState, format),
                    [fn |-> "export", via |-> "onGenerate", format |-> format,
                     includeAnswers |-> includeAnswers])

\* "Generate & Download" of an ExportModal that was given no onGenerate
ModalExport ==
    /\ currentQuiz # NoQuiz
    /\ \E format \in Formats, includeAnswers \in BOOLEAN :
          ExportSet(doDownload(StoreState, format, includeAnswers),
                    [fn |-> "export", via |-> "doDownload", format |-> format,
                     includeAnswers |-> includeAnswers])

\* updateQuestion(id, patch) with a patch that names id, as
\* Partial<QuizQuestion> allows
UpdateQuestionId ==
    \E id \in QuestionIds(currentQuiz), other \in QuestionIds(currentQuiz) :
        StoreSet(updateQuestion(StoreState, id, [id |-> other]),
                 [fn |-> "updateQuestion", id |-> id, patch |-> [id |-> other]])

RejectAll ==
    StoreSet(rejectAll(StoreState), [fn |-> "rejectAll"])

InitApi ==
    /\ JOB_STORE = << >>
    /\ sim = << >>
    /\ resp = NoResp
    /\ apiQuiz = {}

InitCard ==
    /\ polled = NoStatus
    /\ mounted = TRUE
    /\ queued = << >>
    /\ error = Null
    /\ uploading = FALSE
    /\ quiz = NoQuiz
    /\ pollRef = 0
    /\ intervals = << >>
    /\ handles = 0
    /\ pendingUpload = {}
    /\ quizPending = [j \in JobIds |-> 0]
    /\ quizCalls = [j \in JobIds |-> 0]
    /\ fetched = {}
    /\ lateStatus = {}
    /\ completeCalls = [j \in JobIds |-> 0]

InitServer ==
    /\ disk = [jobsDir |-> FALSE, jobs |-> << >>, uploads |-> << >>, tmp |-> {}]
    /\ response = Json(0, [none |-> TRUE])
    /\ request = [n |-> 0, contentType |-> "", body |-> Absent, files |-> << >>]
    /\ thrown = {}

InitConfig ==
    /\ raw = Absent
    /\ parsed = NotParsed
    /\ made = NoQuiz

InitStore ==
    /\ currentQuiz = NoQuiz
    /\ selectedQuestionId = NoSelection
    /\ called = NoCall
    /\ artifact = NoArtifact

Init == InitApi /\ InitCard /\ InitServer /\ InitConfig /\ InitStore

Next ==
    \/ ApiUploadFiles
    \/ ApiTimerTick
    \/ ApiGetJobStatus
    \/ ApiGetQuizCall
    \/ ApiGetQuizReturn

Spec == Init /\ [][Next]_vars

NextCard ==
    \/ AddFiles
    \/ RemoveFile
    \/ StartUpload
    \/ UploadResolve
    \/ PollTick
    \/ QuizResolve
    \/ Unmount
    \/ CardTimerTick

SpecCard == Init /\ [][NextCard]_vars

\* the card with pollJob also driven directly, to reach the failed status
NextPoll ==
    \/ NextCard
    \/ PollUnknown

SpecPoll == Init /\ [][NextPoll]_vars

NextServer ==
    \/ PostJson
    \/ PostMultipart
    \/ PostOther

SpecServer == Init /\ [][NextServer]_vars

\* the validator and the generation stub on their own
NextConfig ==
    \/ ValidateConfig
    \/ GenerateDemo

SpecConfig == Init /\ [][NextConfig]_vars

NextStore ==
    \/ SetQuiz
    \/ ClearQuiz
    \/ UpdateQuestion
    \/ SetSelectedQuestion
    \/ AcceptQuestion
    \/ RejectQuestion
    \/ AcceptAll
    \/ RejectAll

SpecStore == Init /\ [][NextStore]_vars

\* a quiz that is set, edited and reviewed, and its exports
NextExport ==
    \/ SetQuiz
    \/ UpdateQuestion
    \/ RejectQuestion
    \/ EditorExport
    \/ ModalExport

SpecExport == Init /\ [][NextExport]_vars

\* the store called with every patch its signature admits
NextStoreApi ==
    \/ NextStore
    \/ UpdateQuestionId

SpecStoreApi == Init /\ [][NextStoreApi]_vars

(***************************************************************************)
(* The client job store and the endpoint's job records side by side.  The  *)
(* browser's JOB_STORE and the server's jobs/ directory share nothing, so  *)
(* a behaviour follows one of them.  The timer of every job that is being  *)
(* processed keeps firing; requests are up to the user.                    *)
(***************************************************************************)
ClientJobs ==
    /\ request.n = 0
    /\ (ApiUploadFiles \/ ApiTimerTick)

ServerJobs ==
    /\ DOMAIN JOB_STORE = {}
    /\ (PostJson \/ PostMultipart)

NextJobs ==
    \/ ClientJobs
    \/ ServerJobs

FairJobs ==
    /\ Init
    /\ [][NextJobs]_vars
    /\ \A jobId \in JobIds : WF_vars(request.n = 0 /\ JobTimerTick(jobId))

(***************************************************************************)
(* Properties.                                                             *)
(***************************************************************************)
Rank(status) ==
    CASE status = "pending"    -> 0
      [] status = "processing" -> 1
      [] OTHER                 -> 2

Terminal == {"done", "failed"}

\* C1: a job's status never moves back in pending -> processing -> done/failed,
\* a job never leaves the store, and a done or failed job keeps its status.
C1_StatusMonotonic ==
    [][\A jobId \in DOMAIN JOB_STORE :
          /\ jobId \in DOMAIN JOB_STORE'
          /\ Rank(JOB_STORE'[jobId].status) >= Rank(JOB_STORE[jobId].status)
          /\ JOB_STORE[jobId].status \in Terminal
                => JOB_STORE'[jobId].status = JOB_STORE[jobId].status]_vars

\* a job that went through all its steps is done, and its result is being read
C1_Witness ==
    \E jobId \in DOMAIN JOB_STORE :
        /\ JOB_STORE[jobId].status = "done"
        /\ sim[jobId].step = steps
        /\ resp.call = "getQuiz"

C3_SingleResultFetch ==
    \A jobId \in JobIds : quizCalls[jobId] <= 1 /\ jobId \notin lateStatus

\* C4 (as stated): no interval of pollJob is active once the card is
\* unmounted, nor for a job whose result the poller has fetched.
C4_TimerReleased ==
    /\ ~mounted => DOMAIN intervals = {}
    /\ \A handle \in DOMAIN intervals : intervals[handle] \notin fetched

\* C5: a fetchOnce() that receives status failed ends the polling, puts the
\* status message (or "Job failed") into error, clears uploading, and starts
\* no upload.
C5_FailedIsTerminal ==
    [][polled'.status = "failed" =>
          /\ pollRef' = 0
          /\ \A handle \in DOMAIN intervals' : intervals'[handle] # polled'.jobId
          /\ error' = (IF polled'.message = Null THEN "Job failed" ELSE polled'.message)
          /\ uploading' = FALSE
          /\ JOB_STORE' = JOB_STORE
          /\ pendingUpload' = pendingUpload]_vars

\* the failed status arrived while a result fetch of the card was in flight
C5_Witness ==
    /\ polled.status = "failed"
    /\ error = "Job not found."
    /\ ~uploading
    /\ DOMAIN intervals = {}
    /\ \E jobId \in JobIds : quizPending[jobId] > 0

\* C6: the progress getJobStatus reports for an id never decreases from one
\* state to the next, lies in 0..100, and is 100 when the status is done.
C6_ProgressMonotonic ==
    [][\A jobId \in AnyId :
          LET before == getJobStatus(JOB_STORE, jobId)
              after  == getJobStatus(JOB_STORE', jobId)
          IN  /\ after.progress >= before.progress
              /\ after.progress \in 0..100
              /\ after.status = "done" => after.progress = 100]_vars

\* getJobStatus reported the cap of 95 for a job that is not done yet
C6_Witness ==
    /\ resp.call = "getJobStatus"
    /\ resp.value.status = "processing"
    /\ resp.value.progress = 95

\* C7: getJobStatus of an id that is not in the store returns status failed
\* with the message "Job not found." and leaves the store as it was.
C7_UnknownJobFailed ==
    [][(resp'.call = "getJobStatus" /\ resp'.jobId \notin DOMAIN JOB_STORE) =>
          /\ resp'.value.status = "failed"
          /\ resp'.value.message = "Job not found."
          /\ JOB_STORE' = JOB_STORE]_vars

C7_Witness ==
    /\ resp.call = "getJobStatus"
    /\ resp.jobId \notin DOMAIN JOB_STORE
    /\ resp.value.status = "failed"
    /\ DOMAIN JOB_STORE # {}

\* C8: what getQuiz returns is the whole sample quiz of the job's files when
\* the job is done, and null when the job is unknown or not done.
C8_QuizOnlyWhenDone ==
    resp.call = "getQuiz" =>
        resp.value = IF /\ resp.jobId \in DOMAIN JOB_STORE
                        /\ JOB_STORE[resp.jobId].status = "done"
                     THEN buildSampleQuiz(sim[resp.jobId].files)
                     ELSE NoQuiz

C8_Witness ==
    /\ resp.call = "getQuiz"
    /\ resp.value # NoQuiz
    /\ Len(resp.value.questions) = 2

\* C9 (as stated): a request answered 400 or 415 leaves the disk as it was:
\* no job record, no job directory, no uploaded file.
C9_RejectionNoSideEffect ==
    [][(request'.n # request.n /\ response'.status \in {400, 415}) => disk' = disk]_vars

IsValidJsonRequest(r) ==
    /\ r.contentType = "application/json"
    /\ r.body.type = "object"
    /\ SafeParseErrors(r.body) = {}

\* the 200 answer of the JSON branch against the disk d it leaves, old being
\* the records before the request
DoneAnswer(r, res, d, old) ==
    /\ res.status = 200
    /\ res.body.status = "done"
    /\ res.body.jobId \notin DOMAIN old
    /\ res.body.jobId \in DOMAIN d.jobs
    /\ d.jobs[res.body.jobId].jobId = res.body.jobId
    /\ d.jobs[res.body.jobId].status = "done"
    /\ d.jobs[res.body.jobId].result = res.body.quiz
    /\ d.jobs[res.body.jobId].payload = r.body.fields
    /\ Len(res.body.quiz.questions) = r.body.fields.questionCount.twice \div 2

\* C10 (as stated): every valid JSON submission is answered {jobId, done, quiz}
\* with the record of that jobId on disk, done, its result equal to quiz.
C10_ValidJsonDone ==
    [][(request'.n # request.n /\ IsValidJsonRequest(request')) =>
          DoneAnswer(request', response', disk', disk.jobs)]_vars

\* C10 (amended): so it is unless fs.mkdir or fs.writeFile throws: then the
\* answer is 500 and no record is written.
C10_ValidJsonDoneUnlessIoFails ==
    [][(request'.n # request.n /\ IsValidJsonRequest(request')) =>
          \/ DoneAnswer(request', response', disk', disk.jobs)
          \/ response'.status = 500 /\ disk'.jobs = disk.jobs]_vars

C10_Witness ==
    /\ IsValidJsonRequest(request)
    /\ response.status = 200
    /\ response.body.jobId \in DOMAIN disk.jobs
    /\ disk.jobs[response.body.jobId].result = response.body.quiz
    /\ Len(response.body.quiz.questions) = 4

IsValidMultipartRequest(r) ==
    /\ r.contentType = "multipart/form-data"
    /\ PayloadObj(r.body) # Malformed
    /\ PayloadObj(r.body).type = "object"
    /\ SafeParseErrors(PayloadObj(r.body)) = {}

\* the 200 answer of the multipart branch against the disk d it leaves, old
\* being the records before the request
QueuedAnswer(r, res, d, old) ==
    LET jobId == res.body.jobId
        paths == [i \in 1..Len(r.files) |-> <<"uploads", jobId, r.files[i]>>]
    IN  /\ res.status = 200
        /\ res.body.status = "queued"
        /\ "quiz" \notin DOMAIN res.body
        /\ jobId \notin DOMAIN old
        /\ jobId \in DOMAIN d.jobs
        /\ d.jobs[jobId].jobId = jobId
        /\ d.jobs[jobId].status = "queued"
        /\ "result" \notin DOMAIN d.jobs[jobId]
        /\ d.jobs[jobId].payload = PayloadObj(r.body).fields
        /\ d.jobs[jobId].files = paths
        /\ jobId \in DOMAIN d.uploads
        /\ d.uploads[jobId] = paths

C12_EveryExceptionIs500 ==
    /\ request.n > 0 => response.status \in {200, 400, 415, 500}
    /\ thrown # {} =>
          /\ response.status = 500
          /\ DOMAIN response.body = {"error", "details"}

\* C12 (amended): the exceptions that reach the catch of POST (parseMultipart,
\* fs.mkdir, persistUploadedFile, fs.writeFile) are answered 500 {error,
\* details}, and only they; those of req.json(), JSON.parse, fs.rename and
\* fs.unlink are caught where they are raised.  Every request is answered 200,
\* 400, 415 or 500.
C12_EscapingExceptionIs500 ==
    /\ request.n > 0 => response.status \in {200, 400, 415, 500}
    /\ thrown \cap Escaping # {} <=> response.status = 500
    /\ response.status = 500 =>
          /\ DOMAIN response.body = {"error", "details"}
          /\ response.body.details \in thrown

\* fs.writeFile of the job record throws after a file was persisted
C12_Witness ==
    /\ request.contentType = "multipart/form-data"
    /\ Len(request.files) > 0
    /\ "writeFile" \in thrown
    /\ response.status = 500
    /\ request.n \in DOMAIN disk.uploads

\* questionCount and questionType of the configuration the stub was given
CountOf(body) == body.fields.questionCount.twice \div 2
TypeOf(body) == body.fields.questionType.v

\* C13: for a valid configuration with questionCount n the stub returns n
\* questions, the k-th of them (counted from 1) with id number k, so that no
\* two ids are equal.
C13_CountAndIds ==
    made # NoQuiz =>
        /\ Len(made.questions) = CountOf(raw)
        /\ CountOf(raw) \in questionCountMin..questionCountMax
        /\ \A k \in 1..Len(made.questions) : made.questions[k].id = <<"demo_q", k>>
        /\ \A k, m \in 1..Len(made.questions) :
              made.questions[k].id = made.questions[m].id => k = m

\* the largest quiz the stub makes
C13_Witness ==
    /\ made # NoQuiz
    /\ Len(made.questions) = questionCountMax
    /\ made.questions[questionCountMax].id = <<"demo_q", questionCountMax>>

\* C14: with questionType mixed the question at 0-based index i is mcq when i
\* is even and tf when i is odd; with any other questionType every question
\* has that type.
C14_TypeFollowsConfig ==
    made # NoQuiz =>
        \A k \in 1..Len(made.questions) :
            made.questions[k].type =
                IF TypeOf(raw) = "mixed"
                THEN (IF (k - 1) % 2 = 0 THEN "mcq" ELSE "tf")
                ELSE TypeOf(raw)

\* a mixed quiz of three questions: mcq, tf, mcq
C14_Witness ==
    /\ made # NoQuiz
    /\ TypeOf(raw) = "mixed"
    /\ Len(made.questions) = 3
    /\ made.questions[1].type = "mcq"
    /\ made.questions[2].type = "tf"
    /\ made.questions[3].type = "mcq"

\* C15: a generated mcq question has exactly 4 choices and answer "A"; a
\* generated question of any other type has answer "True" and no choices.
C15_ChoicesAndAnswer ==
    made # NoQuiz =>
        \A k \in 1..Len(made.questions) :
            LET q == made.questions[k]
            IN  IF q.type = "mcq"
                THEN /\ q.choices.type = "array"
                     /\ Len(q.choices.items) = 4
                     /\ q.answer = "A"
                ELSE /\ q.choices = Absent
                     /\ q.answer = "True"

\* a theory quiz, and so questions without choices
C15_Witness ==
    /\ made # NoQuiz
    /\ TypeOf(raw) = "theory"
    /\ Len(made.questions) = 2
    /\ made.questions[2].choices = Absent
    /\ made.questions[2].answer = "True"

\* v is an integer between 1 and 100
IsIntegerInRange(v) ==
    /\ v.type = "number"
    /\ \E n \in questionCountMin..questionCountMax : v.twice = 2 * n

\* C16: the validator rejects every configuration object whose questionCount is
\* not an integer in [1,100] with an error that names questionCount, and the
\* error of a rejection names every field that fails, not only the first.
C16_RejectsBadCount ==
    (parsed.done /\ raw.type = "object") =>
        /\ ~IsIntegerInRange(raw.fields.questionCount) =>
              ~parsed.success /\ "questionCount" \in parsed.error
        /\ ~parsed.success =>
              \A key \in SchemaKeys :
                  ~FieldOk(key, raw.fields[key]) <=> key \in parsed.error

\* a rejection in which four fields fail at once
C16_Witness ==
    /\ parsed.done
    /\ ~parsed.success
    /\ raw.type = "object"
    /\ raw.fields.questionCount = Num(questionCountMax + 1)
    /\ parsed.error = {"title", "questionCount", "questionType", "aoc"}

\* the aoc of the configuration a request carried
InputAoc(r) ==
    IF r.contentType = "application/json"
    THEN r.body.fields.aoc
    ELSE PayloadObj(r.body).fields.aoc

\* C17 (as stated): when the submitted configuration has no aoc, the payload
\* stored in the job record has aoc equal to the empty list.
C17_AbsentAocIsEmptyList ==
    (request.n \in DOMAIN disk.jobs /\ InputAoc(request) = Absent) =>
        disk.jobs[request.n].payload.aoc = Arr(<< >>)

\* C18: setQuiz(quiz) makes quiz the current quiz and selects its first
\* question, or nothing when quiz is null or has no questions, whatever was
\* selected before.
C18_SetQuizSelectsFirst ==
    called.fn = "setQuiz" =>
        /\ currentQuiz = called.quiz
        /\ IF called.quiz = NoQuiz THEN selectedQuestionId = NoSelection
           ELSE IF Len(called.quiz.questions) = 0 THEN selectedQuestionId = NoSelection
           ELSE selectedQuestionId = called.quiz.questions[1].id

\* a quiz with questions was set
C18_Witness ==
    /\ called.fn = "setQuiz"
    /\ currentQuiz # NoQuiz
    /\ Len(currentQuiz.questions) > 0
    /\ selectedQuestionId = <<"q", 0, 1>>

\* q2 is q with the questions that carry id merged with patch, and nothing else
\* changed
PatchedOnly(q, q2, id, patch) ==
    /\ q2.title = q.title
    /\ q2.subject = q.subject
    /\ Len(q2.questions) = Len(q.questions)
    /\ \A k \in 1..Len(q.questions) :
          IF q.questions[k].id = id
          THEN /\ DOMAIN q2.questions[k] = DOMAIN q.questions[k] \cup DOMAIN patch
               /\ \A key \in DOMAIN patch : q2.questions[k][key] = patch[key]
               /\ \A key \in DOMAIN q.questions[k] \ DOMAIN patch :
                     q2.questions[k][key] = q.questions[k][key]
          ELSE q2.questions[k] = q.questions[k]

\* C19: updateQuestion(id, patch) leaves the quiz and the selection as they
\* are when no quiz is loaded or no question carries id; otherwise it merges
\* the patch into the question that carries id and changes nothing else.
C19_UpdateQuestionFrame ==
    [][called'.fn = "updateQuestion" =>
          /\ selectedQuestionId' = selectedQuestionId
          /\ IF called'.id \notin QuestionIds(currentQuiz)
             THEN currentQuiz' = currentQuiz
             ELSE /\ currentQuiz' # NoQuiz
                  /\ PatchedOnly(currentQuiz, currentQuiz', called'.id, called'.patch)]_vars

\* updateQuestion was called with an id that no question of the loaded quiz
\* carries, after a question had been accepted
C19_Witness ==
    /\ called.fn = "updateQuestion"
    /\ called.id = MissingId
    /\ currentQuiz # NoQuiz
    /\ Len(currentQuiz.questions) > 0
    /\ currentQuiz.questions[1].status = "accepted"
    /\ selectedQuestionId # NoSelection

\* C20: acceptQuestion(id) / rejectQuestion(id) on a quiz with a question that
\* carries id sets that question's status to accepted / rejected and changes
\* no other field, no other question, no quiz metadata and not the selection.
C20_AcceptRejectFrame ==
    [][(called'.fn \in {"acceptQuestion", "rejectQuestion"}
           /\ called'.id \in QuestionIds(currentQuiz)) =>
          /\ selectedQuestionId' = selectedQuestionId
          /\ currentQuiz' # NoQuiz
          /\ currentQuiz'.title = currentQuiz.title
          /\ currentQuiz'.subject = currentQuiz.subject
          /\ Len(currentQuiz'.questions) = Len(currentQuiz.questions)
          /\ \A k \in 1..Len(currentQuiz.questions) :
                currentQuiz'.questions[k] =
                    IF currentQuiz.questions[k].id = called'.id
                    THEN [currentQuiz.questions[k] EXCEPT
                            !.status = IF called'.fn = "acceptQuestion"
                                       THEN "accepted" ELSE "rejected"]
                    ELSE currentQuiz.questions[k]]_vars

\* the second question was rejected while the first is accepted and selected
C20_Witness ==
    /\ called.fn = "rejectQuestion"
    /\ called.id = <<"q", 0, 2>>
    /\ currentQuiz # NoQuiz
    /\ Len(currentQuiz.questions) > 1
    /\ currentQuiz.questions[2].status = "rejected"
    /\ currentQuiz.questions[1].status = "accepted"
    /\ selectedQuestionId = <<"q", 0, 1>>

\* C21: acceptAll() / rejectAll() set the status of every question of the
\* current quiz to accepted / rejected and change no other field, no quiz
\* metadata and not the selection; with no quiz loaded they change nothing.
C21_BulkStatusFrame ==
    [][called'.fn \in {"acceptAll", "rejectAll"} =>
          /\ selectedQuestionId' = selectedQuestionId
          /\ IF currentQuiz = NoQuiz THEN currentQuiz' = NoQuiz
             ELSE /\ currentQuiz' # NoQuiz
                  /\ currentQuiz'.title = currentQuiz.title
                  /\ currentQuiz'.subject = currentQuiz.subject
                  /\ Len(currentQuiz'.questions) = Len(currentQuiz.questions)
                  /\ \A k \in 1..Len(currentQuiz.questions) :
                        currentQuiz'.questions[k] =
                            [currentQuiz.questions[k] EXCEPT
                                !.status = IF called'.fn = "acceptAll"
                                           THEN "accepted" ELSE "rejected"]]_vars

\* every question of a quiz with an edited prompt was rejected at once
C21_Witness ==
    /\ called.fn = "rejectAll"
    /\ currentQuiz # NoQuiz
    /\ Len(currentQuiz.questions) > 1
    /\ \A k \in 1..Len(currentQuiz.questions) :
          currentQuiz.questions[k].status = "rejected"
    /\ currentQuiz.questions[1].prompt = <<"edited">>
    /\ selectedQuestionId = <<"q", 0, 2>>

\* C22: acceptAll() called right after acceptAll() leaves the state that the
\* first call left.
C22_AcceptAllIdempotent ==
    [][(called.fn = "acceptAll" /\ called'.fn = "acceptAll") =>
          /\ currentQuiz' = currentQuiz
          /\ selectedQuestionId' = selectedQuestionId]_vars

\* acceptAll() has acted on a quiz with questions
C22_Witness ==
    /\ called.fn = "acceptAll"
    /\ currentQuiz # NoQuiz
    /\ Len(currentQuiz.questions) > 1
    /\ \A k \in 1..Len(currentQuiz.questions) :
          currentQuiz.questions[k].status = "accepted"

\* the functions of the store that change questions or the selection
Mutations ==
    {"updateQuestion", "acceptQuestion", "rejectQuestion", "acceptAll", "rejectAll",
     "setSelectedQuestion"}

\* the fields of a question that a call names
Named(call) ==
    CASE call.fn = "updateQuestion"      -> DOMAIN call.patch
      [] call.fn = "setSelectedQuestion" -> {}
      [] OTHER                           -> {"status"}

\* C23: a mutation leaves the number of questions and the question at every
\* position in place, and changes no field that it does not name; so it is
\* for every sequence of mutations since the last setQuiz.
C23_OrderPreserved ==
    [][(called'.fn \in Mutations /\ currentQuiz # NoQuiz) =>
          /\ currentQuiz' # NoQuiz
          /\ Len(currentQuiz'.questions) = Len(currentQuiz.questions)
          /\ \A k \in 1..Len(currentQuiz.questions) :
                /\ currentQuiz'.questions[k].id = currentQuiz.questions[k].id
                /\ \A key \in DOMAIN currentQuiz.questions[k] \ Named(called') :
                      currentQuiz'.questions[k][key] = currentQuiz.questions[k][key]]_vars

\* the second question was edited after the first was rejected
C23_Witness ==
    /\ called.fn = "updateQuestion"
    /\ called.id = <<"q", 0, 2>>
    /\ currentQuiz # NoQuiz
    /\ Len(currentQuiz.questions) > 1
    /\ currentQuiz.questions[1].id = <<"q", 0, 1>>
    /\ currentQuiz.questions[1].status = "rejected"
    /\ currentQuiz.questions[2].id = <<"q", 0, 2>>
    /\ currentQuiz.questions[2].prompt = <<"edited">>

\* C24 (as stated): no call of the store, updateQuestion with any patch
\* included, changes the id of a question, and the ids of the current quiz
\* stay pairwise distinct.
C24_IdImmutable ==
    [][(called'.fn \in Mutations /\ currentQuiz # NoQuiz) =>
          /\ currentQuiz' # NoQuiz
          /\ Len(currentQuiz'.questions) = Len(currentQuiz.questions)
          /\ \A k \in 1..Len(currentQuiz.questions) :
                currentQuiz'.questions[k].id = currentQuiz.questions[k].id
          /\ \A k, m \in 1..Len(currentQuiz'.questions) :
                currentQuiz'.questions[k].id = currentQuiz'.questions[m].id => k = m]_vars

\* C25: an export, whatever the format and the includeAnswers setting, leaves
\* the current quiz and the selected question id as they were.
C25_ExportLeavesState ==
    [][called'.fn = "export" =>
          /\ currentQuiz' = currentQuiz
          /\ selectedQuestionId' = selectedQuestionId]_vars

\* a JSON export without answers was made, and the store's quiz has its answers
C25_Witness ==
    /\ called.fn = "export"
    /\ called.via = "doDownload"
    /\ called.format = "json"
    /\ ~called.includeAnswers
    /\ currentQuiz # NoQuiz
    /\ Len(currentQuiz.questions) > 0
    /\ artifact.type = "application/json"
    /\ ~HasValue(JsonParse(artifact.content).questions[1], "answer")
    /\ currentQuiz.questions[1].answer = "Option A"
    /\ currentQuiz.questions[1].status = "rejected"

QuestionKeys == {"id", "type", "prompt", "choices", "answer", "status"}

\* C26 (as stated): the JSON export parsed back is the current quiz, question
\* by question and field by field, except that the questions have no answer
\* when the export was made with includeAnswers off.
C26_JsonRoundTrip ==
    (called.fn = "export" /\ called.format = "json") =>
        LET back == JsonParse(artifact.content)
        IN  /\ back.title = currentQuiz.title
            /\ back.subject = currentQuiz.subject
            /\ Len(back.questions) = Len(currentQuiz.questions)
            /\ \A k \in 1..Len(currentQuiz.questions) :
                  /\ \A key \in QuestionKeys \ {"answer"} :
                        Field(back.questions[k], key)
                            = Field(currentQuiz.questions[k], key)
                  /\ IF called.includeAnswers
                     THEN Field(back.questions[k], "answer")
                              = Field(currentQuiz.questions[k], "answer")
                     ELSE ~HasValue(back.questions[k], "answer")

\* C27 (as stated): the txt export made with includeAnswers off has a line
\* for every question's prompt and no line that starts with "Answer:".
C27_TxtWithoutAnswers ==
    (called.fn = "export" /\ called.format = "txt" /\ ~called.includeAnswers) =>
        /\ \A k \in 1..Len(currentQuiz.questions) :
              \E i \in 1..Len(artifact.content) :
                  /\ artifact.content[i].n = k
                  /\ artifact.content[i].label = ". "
                  /\ artifact.content[i].indent = ""
                  /\ artifact.content[i].rest = currentQuiz.questions[k].prompt
        /\ \A i \in 1..Len(artifact.content) :
              artifact.content[i].label # "Answer: "

\* C28 (as stated): the status that getJobStatus reports for a job before its
\* progress has begun advancing is pending, with progress 0.
C28_StartsPending ==
    (/\ resp.call = "getJobStatus"
     /\ resp.jobId \in DOMAIN JOB_STORE
     /\ sim[resp.jobId].step = 0) =>
        /\ resp.value.status = "pending"
        /\ resp.value.progress = 0

\* C29: in the client job store a job is done exactly when its progress is 100
\* and exactly when it has a result; a job that is not done has progress at
\* most 95 and no result.
C29_DoneProgressResult ==
    \A jobId \in DOMAIN JOB_STORE :
        LET j == JOB_STORE[jobId]
        IN  /\ j.status = "done" <=> j.progress = Percent(100)
            /\ j.status = "done" <=> j.result # NoQuiz
            /\ j.status # "done" => j.progress <= Percent(95) /\ j.result = NoQuiz

\* a job whose progress stands at the cap of 95 while it is being processed
C29_Witness ==
    \E jobId \in DOMAIN JOB_STORE :
        /\ JOB_STORE[jobId].status = "processing"
        /\ JOB_STORE[jobId].progress = Percent(95)
        /\ JOB_STORE[jobId].result = NoQuiz
        /\ sim[jobId].step < steps

\* C30 (as stated): onJobComplete is invoked at most once for a job.
C30_DeliveredOnce ==
    \A jobId \in JobIds : completeCalls[jobId] <= 1

====
